---- MODULE Spec2Model ----
(***************************************************************************)
(* A model of log4cxx's LocationInfo (src/main/cpp/locationinfo.cpp): the  *)
(* call-site descriptor, its accessors that parse the compiler signature,  *)
(* its serialization through an ObjectOutputStream and the lazily          *)
(* initialised "location unavailable" instance.                            *)
(*                                                                         *)
(* A std::string is a string; positions are the 0-based positions of the   *)
(* C++ code.  A C string pointer is a record of the address it holds and   *)
(* the text found there, so that comparing two pointers and comparing the  *)
(* two texts they point to differ.                                         *)
(***************************************************************************)
EXTENDS Integers, Sequences, FiniteSets, TLC

VARIABLES
    win32,         \* the build: TRUE when _WIN32 is defined
    callSites,     \* the <<file, signature, line>> triples the program constructs from
    obj,           \* the LocationInfo objects of the program
    os,            \* what the last write() did with its ObjectOutputStream
    last,          \* the last member function called, on which object, and its result
    guard,         \* the initialisation guard of the function-local static
    unavailable,   \* the function-local static of getLocationUnavailable()
    pc,            \* each thread's position in getLocationUnavailable()
    got,           \* the reference each thread holds from its last call
    calls,         \* the calls of getLocationUnavailable() each thread has completed
    constructions  \* how many times the static's constructor has run

vars == <<win32, callSites, obj, os, last, guard, unavailable, pc, got, calls,
          constructions>>

----------------------------------------------------------------------------
(* std::string *)

\* the character of s at the 1-based index i
At(s, i) == SubSeq(s, i, i)

npos == -1

Min(S) == CHOOSE x \in S : \A y \in S : x <= y
Max(S) == CHOOSE x \in S : \A y \in S : x >= y

\* s.find(c): the position of the first c, or npos
find(s, c) ==
    LET I == {i \in 1..Len(s) : At(s, i) = c}
    IN  IF I = {} THEN npos ELSE Min(I) - 1

\* s.find_last_of(c): the position of the last c, or npos
find_last_of(s, c) ==
    LET I == {i \in 1..Len(s) : At(s, i) = c}
    IN  IF I = {} THEN npos ELSE Max(I) - 1

\* s.rfind(pat, pos): the last position <= pos at which pat starts, or npos
rfindFrom(s, pat, pos) ==
    LET I == {i \in 1..(Len(s) - Len(pat) + 1) :
                 /\ i - 1 <= pos
                 /\ SubSeq(s, i, i + Len(pat) - 1) = pat}
    IN  IF I = {} THEN npos ELSE Max(I) - 1

\* s.rfind(pat): the last position at which pat starts, or npos
rfind(s, pat) == rfindFrom(s, pat, Len(s))

\* s.erase(pos): drops everything from pos on
eraseFrom(s, pos) == SubSeq(s, 1, pos)

\* s.erase(0, n): drops the first n characters
eraseFront(s, n) == SubSeq(s, n + 1, Len(s))

\* s.substr(pos)
substr(s, pos) == SubSeq(s, pos + 1, Len(s))

\* s.replace(pos, n, r)
replace(s, pos, n, r) == SubSeq(s, 1, pos) \o r \o SubSeq(s, pos + n + 1, Len(s))

ColonColon == "::"

----------------------------------------------------------------------------
(* C string pointers *)

Ptr(a, t) == [addr |-> a, text |-> t]

NA == Ptr("LocationInfo::NA", "?")
NA_METHOD == Ptr("LocationInfo::NA_METHOD", "?::?")

SHORT_FILENAME_SPLIT_CHAR(w) == IF w THEN "\\" ELSE "/"

\* Pool::itoa: the decimal text of an int
RECURSIVE Digits(_)
Digits(n) ==
    IF n < 10 THEN At("0123456789", n + 1)
    ELSE Digits(n \div 10) \o At("0123456789", (n % 10) + 1)

itoa(n) == IF n < 0 THEN "-" \o Digits(-n) ELSE Digits(n)

----------------------------------------------------------------------------
(* LocationInfo *)

Unconstructed == [state |-> "unconstructed"]

LocationInfo(line, file, short, method) ==
    [state |-> "alive", lineNumber |-> line, fileName |-> file,
     shortFileName |-> short, methodName |-> method]

\* filterFileName cutting at the first separator instead of the last
filterFileNameFirst(fileName, w) ==
    LET fullFileName == fileName.text
        found == find(fullFileName, SHORT_FILENAME_SPLIT_CHAR(w))
    IN  IF found # npos THEN substr(fullFileName, found + 1)
        ELSE fileName.text

filterFileName(fileName, w) ==
    LET fullFileName == fileName.text
        found == rfind(fullFileName, SHORT_FILENAME_SPLIT_CHAR(w))
    IN  IF found # npos THEN substr(fullFileName, found + 1)
        ELSE fileName.text

\* LocationInfo(fileName1, methodName1, lineNumber1): shortFileName is computed
\* from the member fileName, which the initialiser list has set before it
Construct3(fileName1, methodName1, lineNumber1, w) ==
    LocationInfo(lineNumber1, fileName1, filterFileName(fileName1, w), methodName1)

\* LocationInfo()
ConstructDefault == LocationInfo(-1, NA, NA.text, NA_METHOD)

\* LocationInfo(const LocationInfo& src)
ConstructCopy(src) ==
    LocationInfo(src.lineNumber, src.fileName, src.shortFileName, src.methodName)

\* operator= that also takes the shortFileName of its source
AssignFromAll(self, src) ==
    [self EXCEPT !.fileName = src.fileName,
                 !.shortFileName = src.shortFileName,
                 !.methodName = src.methodName,
                 !.lineNumber = src.lineNumber]

\* operator=(src) on the object self
AssignFrom(self, src) ==
    [self EXCEPT !.fileName = src.fileName,
                 !.methodName = src.methodName,
                 !.lineNumber = src.lineNumber]

\* clear() on the object self
Cleared(self) ==
    [self EXCEPT !.fileName = NA, !.methodName = NA_METHOD, !.lineNumber = -1]

getFileName(self) == self.fileName

getShortFileName(self) == self.shortFileName

getLineNumber(self) == self.lineNumber

\* getMethodName looking for the first space before looking for "::"
getMethodNameSpaceFirst(self) ==
    LET tmp0 == self.methodName.text
        parenPos == find(tmp0, "(")
        tmp1 == IF parenPos # npos THEN eraseFrom(tmp0, parenPos) ELSE tmp0
        colonPos == rfind(tmp1, ColonColon)
        spacePos == find(tmp1, " ")
    IN  IF spacePos # npos THEN eraseFront(tmp1, spacePos + 1)
        ELSE IF colonPos # npos THEN eraseFront(tmp1, colonPos + 2)
        ELSE tmp1

getMethodName(self) ==
    LET tmp0 == self.methodName.text
        parenPos == find(tmp0, "(")
        tmp1 == IF parenPos # npos THEN eraseFrom(tmp0, parenPos) ELSE tmp0
        colonPos == rfind(tmp1, ColonColon)
        spacePos == find(tmp1, " ")
    IN  IF colonPos # npos THEN eraseFront(tmp1, colonPos + 2)
        ELSE IF spacePos # npos THEN eraseFront(tmp1, spacePos + 1)
        ELSE tmp1

\* getClassName cutting at the first space instead of the last
getClassNameFirstSpace(self) ==
    LET tmp0 == self.methodName.text
        parenPos == find(tmp0, "(")
        tmp1 == IF parenPos # npos THEN eraseFrom(tmp0, parenPos) ELSE tmp0
        colonPos == rfind(tmp1, ColonColon)
        tmp2 == eraseFrom(tmp1, colonPos)
        spacePos == find(tmp2, " ")
    IN  IF colonPos # npos
        THEN IF spacePos # npos THEN eraseFront(tmp2, spacePos + 1) ELSE tmp2
        ELSE eraseFront(tmp1, Len(tmp1))

getClassName(self) ==
    LET tmp0 == self.methodName.text
        parenPos == find(tmp0, "(")
        tmp1 == IF parenPos # npos THEN eraseFrom(tmp0, parenPos) ELSE tmp0
        colonPos == rfind(tmp1, ColonColon)
        tmp2 == eraseFrom(tmp1, colonPos)
        spacePos == find_last_of(tmp2, " ")
    IN  IF colonPos # npos
        THEN IF spacePos # npos THEN eraseFront(tmp2, spacePos + 1) ELSE tmp2
        ELSE eraseFront(tmp1, Len(tmp1))

\* lines 235-246 of write(): a return type in front of the signature is dropped
stripReturnType(fullInfo) ==
    LET openParen == find(fullInfo, "(")
        space == find(fullInfo, " ")
    IN  IF openParen # npos /\ space # npos /\ space < openParen
        THEN eraseFront(fullInfo, space + 1)
        ELSE fullInfo

\* the class separator searched in the whole signature, arguments included
dotClassSepAnywhere(fullInfo) ==
    LET openParen == find(fullInfo, "(")
        classSep == rfind(fullInfo, ColonColon)
    IN  IF openParen # npos
        THEN IF classSep # npos THEN replace(fullInfo, classSep, 2, ".")
             ELSE "." \o fullInfo
        ELSE fullInfo

\* the class separator replaced one character short
dotClassSepOneColon(fullInfo) ==
    LET openParen == find(fullInfo, "(")
        classSep == rfindFrom(fullInfo, ColonColon, openParen)
    IN  IF openParen # npos
        THEN IF classSep # npos THEN replace(fullInfo, classSep, 1, ".")
             ELSE "." \o fullInfo
        ELSE fullInfo

\* lines 248-262 of write(): the class separator becomes a dot
dotClassSep(fullInfo) ==
    LET openParen == find(fullInfo, "(")
        classSep == rfindFrom(fullInfo, ColonColon, openParen)
    IN  IF openParen # npos
        THEN IF classSep # npos THEN replace(fullInfo, classSep, 2, ".")
             ELSE "." \o fullInfo
        ELSE fullInfo

\* lines 231-268 of write(): the text handed to writeUTFString
fullInfoOf(self) ==
    LET line == itoa(self.lineNumber)
    IN  dotClassSep(stripReturnType(self.methodName.text))
            \o "(" \o self.fileName.text \o ":" \o line \o ")"

\* the branch of write(): the canonical "unavailable" descriptor
isUnavailable(self) ==
    /\ self.lineNumber = -1
    /\ self.fileName.addr = NA.addr
    /\ self.methodName.addr = NA_METHOD.addr

WriterCall(name, arg) == [call |-> name, arg |-> arg]

\* write(os, p): the calls made on os, in order
write(self) ==
    IF isUnavailable(self)
    THEN <<WriterCall("writeNull", "")>>
    ELSE <<WriterCall("writeProlog", "org.apache.log4j.spi.LocationInfo"),
           WriterCall("writeUTFString", fullInfoOf(self))>>

----------------------------------------------------------------------------
(* The program: objects are constructed, assigned, cleared, read and written *)

ObjIds == {"a", "b"}

NoCall == [op |-> "none", self |-> "none", val |-> ""]
Called(op, o, v) == [op |-> op, self |-> o, val |-> v]

NoWrite == [calls |-> <<>>, of |-> Unconstructed]

Alive(o) == obj[o].state = "alive"

Frame == UNCHANGED <<win32, callSites, guard, unavailable, pc, got, calls, constructions>>

New3(o) ==
    /\ ~Alive(o)
    /\ \E site \in callSites :
          obj' = [obj EXCEPT ![o] = Construct3(site[1], site[2], site[3], win32)]
    /\ last' = Called("LocationInfo3", o, "")
    /\ UNCHANGED os
    /\ Frame

NewDefault(o) ==
    /\ ~Alive(o)
    /\ obj' = [obj EXCEPT ![o] = ConstructDefault]
    /\ last' = Called("LocationInfo0", o, "")
    /\ UNCHANGED os
    /\ Frame

NewCopy(o, src) ==
    /\ ~Alive(o)
    /\ Alive(src)
    /\ obj' = [obj EXCEPT ![o] = ConstructCopy(obj[src])]
    /\ last' = Called("LocationInfoCopy", o, src)
    /\ UNCHANGED os
    /\ Frame

Assign(o, src) ==
    /\ Alive(o)
    /\ Alive(src)
    /\ obj' = [obj EXCEPT ![o] = AssignFrom(obj[o], obj[src])]
    /\ last' = Called("operator=", o, src)
    /\ UNCHANGED os
    /\ Frame

Clear(o) ==
    /\ Alive(o)
    /\ obj' = [obj EXCEPT ![o] = Cleared(obj[o])]
    /\ last' = Called("clear", o, "")
    /\ UNCHANGED os
    /\ Frame

CallGetFileName(o) ==
    /\ Alive(o)
    /\ last' = Called("getFileName", o, getFileName(obj[o]))
    /\ UNCHANGED <<obj, os>>
    /\ Frame

CallGetShortFileName(o) ==
    /\ Alive(o)
    /\ last' = Called("getShortFileName", o, getShortFileName(obj[o]))
    /\ UNCHANGED <<obj, os>>
    /\ Frame

CallGetLineNumber(o) ==
    /\ Alive(o)
    /\ last' = Called("getLineNumber", o, getLineNumber(obj[o]))
    /\ UNCHANGED <<obj, os>>
    /\ Frame

CallGetMethodName(o) ==
    /\ Alive(o)
    /\ last' = Called("getMethodName", o, getMethodName(obj[o]))
    /\ UNCHANGED <<obj, os>>
    /\ Frame

CallGetClassName(o) ==
    /\ Alive(o)
    /\ last' = Called("getClassName", o, getClassName(obj[o]))
    /\ UNCHANGED <<obj, os>>
    /\ Frame

Write(o) ==
    /\ Alive(o)
    /\ os' = [calls |-> write(obj[o]), of |-> obj[o]]
    /\ last' = Called("write", o, "")
    /\ UNCHANGED obj
    /\ Frame

----------------------------------------------------------------------------
(* getLocationUnavailable(): a function-local static, initialised on first  *)
(* use under the guard the language puts around it                          *)

NThreads == 3
MaxCalls == 2

Threads == 1..NThreads

None == [ref |-> "none"]

ObjFrame == UNCHANGED <<win32, callSites, obj>>

\* a static whose initialisation is a plain flag test, with no lock
guardAcquireUnlocked(g) ==
    CASE g = "done" -> "skip"
      [] OTHER      -> "initialise"

\* what a thread arriving at the declaration does, by the state of the guard
guardAcquire(g) ==
    CASE g = "done"    -> "skip"
      [] g = "uninit"  -> "initialise"
      [] g = "running" -> "wait"

Enter(t) ==
    /\ pc[t] = "idle"
    /\ calls[t] < MaxCalls
    /\ pc' = [pc EXCEPT ![t] = "guard"]
    /\ UNCHANGED <<os, last, guard, unavailable, got, calls, constructions>>
    /\ ObjFrame

Acquire(t) ==
    /\ pc[t] \in {"guard", "wait"}
    /\ LET a == guardAcquire(guard)
       IN  \/ /\ a = "skip"
              /\ pc' = [pc EXCEPT ![t] = "return"]
              /\ UNCHANGED guard
           \/ /\ a = "initialise"
              /\ guard' = "running"
              /\ pc' = [pc EXCEPT ![t] = "construct"]
           \/ /\ a = "wait"
              /\ pc[t] = "guard"
              /\ pc' = [pc EXCEPT ![t] = "wait"]
              /\ UNCHANGED guard
    /\ UNCHANGED <<os, last, unavailable, got, calls, constructions>>
    /\ ObjFrame

ConstructStatic(t) ==
    /\ pc[t] = "construct"
    /\ unavailable' = ConstructDefault
    /\ constructions' = constructions + 1
    /\ pc' = [pc EXCEPT ![t] = "release"]
    /\ UNCHANGED <<os, last, guard, got, calls>>
    /\ ObjFrame

Release(t) ==
    /\ pc[t] = "release"
    /\ guard' = "done"
    /\ pc' = [pc EXCEPT ![t] = "return"]
    /\ UNCHANGED <<os, last, unavailable, got, calls, constructions>>
    /\ ObjFrame

Return(t) ==
    /\ pc[t] = "return"
    /\ got' = [got EXCEPT ![t] = [ref |-> "unavailable", seen |-> unavailable]]
    /\ calls' = [calls EXCEPT ![t] = calls[t] + 1]
    /\ pc' = [pc EXCEPT ![t] = "idle"]
    /\ UNCHANGED <<os, last, guard, unavailable, constructions>>
    /\ ObjFrame

\* the const member functions, called through the reference a thread holds
ReadUnavailable(t) ==
    /\ got[t] # None
    /\ \E r \in {Called("getFileName", "unavailable", getFileName(unavailable)),
                 Called("getShortFileName", "unavailable", getShortFileName(unavailable)),
                 Called("getLineNumber", "unavailable", getLineNumber(unavailable)),
                 Called("getMethodName", "unavailable", getMethodName(unavailable)),
                 Called("getClassName", "unavailable", getClassName(unavailable))} :
          last' = r
    /\ UNCHANGED <<os, guard, unavailable, pc, got, calls, constructions>>
    /\ ObjFrame

WriteUnavailable(t) ==
    /\ got[t] # None
    /\ os' = [calls |-> write(unavailable), of |-> unavailable]
    /\ last' = Called("write", "unavailable", "")
    /\ UNCHANGED <<guard, unavailable, pc, got, calls, constructions>>
    /\ ObjFrame

----------------------------------------------------------------------------
(* Inputs *)

MaxSigLen == 7
MaxFileLen == 5

RECURSIVE Strs(_, _)
Strs(A, n) == IF n = 0 THEN {""} ELSE {""} \cup {s \o c : s \in Strs(A, n - 1), c \in A}

SigChars == {"m", ":", "(", " "}
FileChars == {"c", "/", "\\"}

Foo_bar == Ptr("lit:Foo::bar(int)", "Foo::bar(int)")

\* the call sites of the program whose objects are assigned, cleared and copied
MainSites ==
    {NA, Ptr("buf:?", "?"), Ptr("lit:/a/Foo.cpp", "/a/Foo.cpp")}
        \X {NA_METHOD, Foo_bar}
        \X {-1, 42}

ExampleSigs ==
    {"MyNamespace::MyClass::myMethod(int, char*)",
     "int myMethod(int)",
     "myMethod",
     "ns::Class::method",
     "void ns::Class::method(std::string const&)",
     "unsigned int Foo::bar(int)",
     "Foo::bar(int)",
     "?::?"}

ExampleFiles ==
    {"/a/b/c.cpp", "c.cpp", "/a/b/", "C:\\a\\c.cpp",
     "Foo.cpp", "?"}

\* every signature and every path within the bounds, and the examples
ParseInputs ==
    ({FALSE}
        \X (({Ptr("file", t) : t \in {"Foo.cpp"}}
                \X {Ptr("sig", t) : t \in Strs(SigChars, MaxSigLen)}
                \X {42})
            \cup ({Ptr("file", t) : t \in {"Foo.cpp", "?"}}
                \X {Ptr("sig", t) : t \in ExampleSigs}
                \X {-1, 0, 42, 2147483647})))
    \cup
    (BOOLEAN
        \X ({Ptr("file", t) : t \in Strs(FileChars, MaxFileLen) \cup ExampleFiles}
                \X {Ptr("sig", t) : t \in {"Foo::bar(int)"}}
                \X {42}))

----------------------------------------------------------------------------
(* Specifications *)

InitStatic ==
    /\ guard = "uninit"
    /\ unavailable = Unconstructed
    /\ pc = [t \in Threads |-> "idle"]
    /\ got = [t \in Threads |-> None]
    /\ calls = [t \in Threads |-> 0]
    /\ constructions = 0

InitObjects ==
    /\ obj = [o \in ObjIds |-> Unconstructed]
    /\ os = NoWrite
    /\ last = NoCall

\* objects built from a few call sites, then assigned, cleared, copied, read, written
Init ==
    /\ win32 \in BOOLEAN
    /\ callSites = MainSites
    /\ InitObjects
    /\ InitStatic

Next ==
    \/ \E o \in ObjIds : New3(o)
    \/ \E o \in ObjIds : NewDefault(o)
    \/ \E o \in ObjIds : \E src \in ObjIds \ {o} : NewCopy(o, src)
    \/ \E o \in ObjIds, src \in ObjIds : Assign(o, src)
    \/ \E o \in ObjIds : Clear(o)
    \/ \E o \in ObjIds : CallGetFileName(o)
    \/ \E o \in ObjIds : CallGetShortFileName(o)
    \/ \E o \in ObjIds : CallGetLineNumber(o)
    \/ \E o \in ObjIds : CallGetMethodName(o)
    \/ \E o \in ObjIds : CallGetClassName(o)
    \/ \E o \in ObjIds : Write(o)

Spec == Init /\ [][Next]_vars

\* one object built from one call site, any signature or path within the bounds
InitParse ==
    /\ \E inp \in ParseInputs :
          /\ win32 = inp[1]
          /\ callSites = {inp[2]}
    /\ InitObjects
    /\ InitStatic

NextParse ==
    \/ New3("a")
    \/ CallGetShortFileName("a")
    \/ CallGetMethodName("a")
    \/ CallGetClassName("a")
    \/ Write("a")

SpecParse == InitParse /\ [][NextParse]_vars

\* threads calling getLocationUnavailable() and reading through the reference
InitOnce ==
    /\ win32 \in BOOLEAN
    /\ callSites = {}
    /\ InitObjects
    /\ InitStatic

NextOnce ==
    \/ \E t \in Threads : Enter(t)
    \/ \E t \in Threads : Acquire(t)
    \/ \E t \in Threads : ConstructStatic(t)
    \/ \E t \in Threads : Release(t)
    \/ \E t \in Threads : Return(t)
    \/ \E t \in Threads : ReadUnavailable(t)
    \/ \E t \in Threads : WriteUnavailable(t)

SpecOnce == InitOnce /\ [][NextOnce]_vars

----------------------------------------------------------------------------
(* Vocabulary of the properties: texts by their occurrences, 1-based *)

HasAt(s, pat, i) ==
    /\ i >= 1
    /\ i + Len(pat) - 1 <= Len(s)
    /\ SubSeq(s, i, i + Len(pat) - 1) = pat

Occ(s, pat) == {i \in 1..Len(s) : HasAt(s, pat, i)}

Contains(s, pat) == Occ(s, pat) # {}

BeforeFirst(s, pat) == SubSeq(s, 1, Min(Occ(s, pat)) - 1)
AfterFirst(s, pat) == SubSeq(s, Min(Occ(s, pat)) + Len(pat), Len(s))
BeforeLast(s, pat) == SubSeq(s, 1, Max(Occ(s, pat)) - 1)
AfterLast(s, pat) == SubSeq(s, Max(Occ(s, pat)) + Len(pat), Len(s))

IsSuffix(t, s) == Len(t) <= Len(s) /\ SubSeq(s, Len(s) - Len(t) + 1, Len(s)) = t

\* the signature without its argument list
Truncated(raw) == IF Contains(raw, "(") THEN BeforeFirst(raw, "(") ELSE raw

TextIs(p, str) == p.text = str

\* the descriptor the last call was made on
Self == obj[last.self]

----------------------------------------------------------------------------
(* Properties *)

\* C1: write() calls writeNull exactly once and nothing else if and only if
\* lineNumber is -1, fileName is "?" and methodName is "?::?"; for every other
\* combination of fields it calls writeProlog once, then writeUTFString once.
C1_NullIffAllSentinels ==
    last.op = "write" =>
        IF /\ os.of.lineNumber = -1
           /\ TextIs(os.of.fileName, "?")
           /\ TextIs(os.of.methodName, "?::?")
        THEN /\ Len(os.calls) = 1
             /\ os.calls[1].call = "writeNull"
        ELSE /\ Len(os.calls) = 2
             /\ os.calls[1].call = "writeProlog"
             /\ os.calls[2].call = "writeUTFString"

IsFooBar42(d) ==
    /\ d.state = "alive"
    /\ TextIs(d.fileName, "Foo.cpp")
    /\ TextIs(d.methodName, "Foo::bar(int)")
    /\ d.lineNumber = 42

\* C2, as stated: serializing {"Foo.cpp", "Foo::bar(int)", 42} hands
\* writeUTFString exactly ".bar(Foo.cpp:42)".
C2_PayloadAsStated ==
    (last.op = "write" /\ IsFooBar42(os.of)) =>
        /\ Len(os.calls) = 2
        /\ os.calls[2] = WriterCall("writeUTFString", ".bar(Foo.cpp:42)")

\* C2, amended: serializing {"Foo.cpp", "Foo::bar(int)", 42} hands
\* writeUTFString exactly "Foo.bar(int)(Foo.cpp:42)": the class name and the
\* argument list stay in the payload.
C2_Payload ==
    (last.op = "write" /\ IsFooBar42(os.of)) =>
        /\ Len(os.calls) = 2
        /\ os.calls[1].call = "writeProlog"
        /\ os.calls[2] = WriterCall("writeUTFString", "Foo.bar(int)(Foo.cpp:42)")

C2_Witness == last.op = "write" /\ IsFooBar42(os.of)

\* C3: after clear() the descriptor equals a default-constructed one field by
\* field: getFileName() is "?", methodName is "?::?", getLineNumber() is -1 and
\* getShortFileName() is "?".
C3_ClearYieldsDefault ==
    last.op = "clear" =>
        /\ TextIs(getFileName(Self), "?")
        /\ TextIs(Self.methodName, "?::?")
        /\ getLineNumber(Self) = -1
        /\ getShortFileName(Self) = "?"
        /\ Self = ConstructDefault

\* C4: however many threads call getLocationUnavailable() at once, the
\* instance is constructed at most once, every caller receives that one
\* instance holding the three sentinels, and once initialised its fields
\* never change.
C4_InitialisedOnce ==
    /\ [](/\ constructions <= 1
          /\ \A t \in Threads :
                got[t] # None =>
                    /\ got[t].ref = "unavailable"
                    /\ got[t].seen = unavailable
                    /\ got[t].seen.lineNumber = -1
                    /\ TextIs(got[t].seen.fileName, "?")
                    /\ TextIs(got[t].seen.methodName, "?::?"))
    /\ [][unavailable # Unconstructed => unavailable' = unavailable]_vars

\* two threads raced on the first call: one holds the reference and has read
\* through it while the other is still the one that had to wait
C4_Witness ==
    \E t1 \in Threads : \E t2 \in Threads \ {t1} :
        /\ got[t1] # None
        /\ pc[t2] = "wait"
        /\ last.self = "unavailable"
        /\ constructions = 1

SameThreeFields(d, e) ==
    /\ d.fileName.text = e.fileName.text
    /\ d.methodName.text = e.methodName.text
    /\ d.lineNumber = e.lineNumber

\* C5: the writer calls and the payload of write() depend only on fileName,
\* methodName and lineNumber: two descriptors that agree on these produce the
\* same output, whatever their shortFileName and their history.
C5_OutputOfThreeFields ==
    [][(/\ os.of # Unconstructed
        /\ os'.of # Unconstructed
        /\ SameThreeFields(os.of, os'.of)) => os'.calls = os.calls]_vars

\* The same with the two pointer fields compared as the code compares them, by
\* the address they hold: descriptors with equal fileName, methodName and
\* lineNumber produce the same output, whatever their shortFileName.
OutputOfThreeFieldValues ==
    [][(/\ os.of # Unconstructed
        /\ os'.of # Unconstructed
        /\ os.of.fileName = os'.of.fileName
        /\ os.of.methodName = os'.of.methodName
        /\ os.of.lineNumber = os'.of.lineNumber) => os'.calls = os.calls]_vars

OutputOfThreeFieldValues_Witness ==
    /\ last.op = "write"
    /\ os.of.shortFileName # filterFileName(os.of.fileName, win32)
    /\ Len(os.calls) = 2

\* C6: getMethodName() is the signature cut at its first "(", then the text
\* after the last "::" if there is one, else the text after the first space if
\* there is one, else all of it; it never contains "(" or "::", and the three
\* example signatures all give "myMethod".
C6_MethodName ==
    last.op = "getMethodName" =>
        LET raw == Self.methodName.text
            r == Truncated(raw)
        IN  /\ last.val = IF Contains(r, ColonColon) THEN AfterLast(r, ColonColon)
                          ELSE IF Contains(r, " ") THEN AfterFirst(r, " ")
                          ELSE r
            /\ ~Contains(last.val, "(")
            /\ ~Contains(last.val, ColonColon)
            /\ raw \in {"MyNamespace::MyClass::myMethod(int, char*)",
                        "int myMethod(int)",
                        "myMethod"} => last.val = "myMethod"

C6_Witness ==
    /\ last.op = "getMethodName"
    /\ TextIs(Self.methodName, "MyNamespace::MyClass::myMethod(int, char*)")
    /\ last.val = "myMethod"

\* C7: getClassName() is the signature cut at its first "(", empty if that has
\* no "::", else what precedes the last "::" with everything up to its last
\* space dropped; "ns::Class::method" gives "ns::Class", a "::" in the
\* argument list changes nothing, and the result has no space and no "(".
C7_ClassName ==
    last.op = "getClassName" =>
        LET raw == Self.methodName.text
            r == Truncated(raw)
            q == BeforeLast(r, ColonColon)
        IN  /\ last.val = IF ~Contains(r, ColonColon) THEN ""
                          ELSE IF Contains(q, " ") THEN AfterLast(q, " ")
                          ELSE q
            /\ ~Contains(last.val, "(")
            /\ ~Contains(last.val, " ")
            /\ ~Contains(r, ColonColon) => last.val = ""
            /\ TextIs(Self.methodName, "ns::Class::method") => last.val = "ns::Class"
            /\ TextIs(Self.methodName, "MyNamespace::MyClass::myMethod(int, char*)")
                   => last.val = "MyNamespace::MyClass"

\* a signature whose only "::" is in the argument list has no class
C7_Witness ==
    /\ last.op = "getClassName"
    /\ Contains(Self.methodName.text, ColonColon)
    /\ ~Contains(Truncated(Self.methodName.text), ColonColon)
    /\ last.val = ""

\* C8: after three-argument construction getShortFileName() is the text of
\* fileName after its last path separator, or fileName itself when it has none;
\* it never contains the separator and is a suffix of fileName.
C8_ShortFileName ==
    last.op = "getShortFileName" =>
        LET sep == IF win32 THEN "\\" ELSE "/"
            file == Self.fileName.text
        IN  /\ last.val = IF Contains(file, sep) THEN AfterLast(file, sep) ELSE file
            /\ ~Contains(last.val, sep)
            /\ IsSuffix(last.val, file)
            /\ (~win32 /\ file = "/a/b/c.cpp") => last.val = "c.cpp"
            /\ file = "c.cpp" => last.val = "c.cpp"
            /\ (file # "" /\ At(file, Len(file)) = sep) => last.val = ""

\* a path of several segments that ends in the separator
C8_Witness ==
    /\ last.op = "getShortFileName"
    /\ ~win32
    /\ Self.fileName.text = "/a/b/"
    /\ last.val = ""

ArgumentList(raw) == SubSeq(raw, Min(Occ(raw, "(")), Len(raw))

\* C10: on the normal path the payload is the raw methodName with: the text up
\* to and including its first space removed when that space lies before the
\* first "("; then, if there is a "(", the last "::" starting at or before it
\* replaced by one ".", or one "." put in front when there is none; then
\* "(" fileName ":" lineNumber in decimal ")" appended.  At most one "::" is
\* replaced, none in the argument list, and the argument list is kept.
C10_Payload ==
    (last.op = "write" /\ Len(os.calls) = 2) =>
        LET raw == os.of.methodName.text
            hasReturnType ==
                /\ Contains(raw, "(")
                /\ Contains(raw, " ")
                /\ Min(Occ(raw, " ")) < Min(Occ(raw, "("))
            s1 == IF hasReturnType THEN AfterFirst(raw, " ") ELSE raw
            seps == {i \in Occ(s1, ColonColon) : i <= Min(Occ(s1, "("))}
            s2 == IF ~Contains(s1, "(") THEN s1
                  ELSE IF seps = {} THEN "." \o s1
                  ELSE SubSeq(s1, 1, Max(seps) - 1) \o "."
                           \o SubSeq(s1, Max(seps) + 2, Len(s1))
            tail == "(" \o os.of.fileName.text \o ":" \o ToString(os.of.lineNumber) \o ")"
            payload == os.calls[2].arg
            body == SubSeq(payload, 1, Len(payload) - Len(tail))
        IN  /\ os.calls[1].call = "writeProlog"
            /\ os.calls[2].call = "writeUTFString"
            /\ payload = s2 \o tail
            /\ IsSuffix(tail, payload)
            /\ Len(body) >= Len(s1) - 1
            /\ Contains(raw, "(") => IsSuffix(ArgumentList(raw), body)
            /\ ~Contains(raw, "(") => body = raw

\* a signature with a return type, nested qualifiers and a "::" among its
\* arguments has been written
C10_Witness ==
    /\ last.op = "write"
    /\ TextIs(os.of.methodName, "void ns::Class::method(std::string const&)")
    /\ os.of.lineNumber = 2147483647
    /\ os.calls[2].arg = "ns::Class.method(std::string const&)(Foo.cpp:2147483647)"

====
